---- MODULE Spec2Model ----
(***************************************************************************)
(* A model of sweep.c: the bridge between Emacs Lisp values and            *)
(* SWI-Prolog terms, and the four query entry points built on it           *)
(* (sweep-open-query, sweep-next-solution, sweep-cut-query,                *)
(* sweep-close-query).                                                     *)
(*                                                                         *)
(* Host values and engine terms are records with a "tag" field.  Text is   *)
(* a sequence of characters.  The Prolog engine and the Emacs module       *)
(* environment are modelled at the calls sweep.c makes into them.          *)
(***************************************************************************)
EXTENDS Integers, Sequences, FiniteSets, TLC

VARIABLES
  refs,      \* the term references handed out by PL_new_term_refs, in order
  queries,   \* the engine's stack of open queries, innermost first
  nqid,      \* number of queries opened so far (query handles are 1, 2, ...)
  o,         \* sweep.c's global `term_t o`
  last,      \* the last entry-point call: its inputs and what the host saw
  crashed,   \* the process has been killed by undefined behaviour
  cin,       \* conversion specification: the term or value being converted
  cout       \* conversion specification: the result of the conversion

vars == <<refs, queries, nqid, o, last, crashed, cin, cout>>

-----------------------------------------------------------------------------
(* Bounds of the model *)

\* number of sweep-open-query calls in one behaviour
MaxOpenCalls == 3

-----------------------------------------------------------------------------
(* Host (Emacs) values *)

\* the C null pointer where an emacs_value is expected
NULLV == [tag |-> "NULL"]

\* the outcome of a call whose undefined behaviour killed the process
Crash == [tag |-> "crash"]

Sym(name) == [tag |-> "symbol", name |-> name]

EString(s) == [tag |-> "string", s |-> s]

EInteger(n) == [tag |-> "integer", n |-> n]

\* a host float: a value of a dynamic type value_to_term does not support
EFloat == [tag |-> "float"]

ECons(car, cdr) == [tag |-> "cons", car |-> car, cdr |-> cdr]

enil == Sym("nil")

et == Sym("t")

\* env->funcall(env, env->intern(env, "cons"), 2, {car, cdr})
econs(car, cdr) == ECons(car, cdr)

RECURSIVE elist(_)
\* env->funcall(env, env->intern(env, "list"), n, vals)
elist(vals) ==
  IF vals = <<>> THEN enil ELSE ECons(Head(vals), elist(Tail(vals)))

RECURSIVE HasNull(_)
\* a C null pointer occurs in the value, at the top or inside a cons
HasNull(v) ==
  CASE v.tag = "NULL" -> TRUE
    [] v.tag = "cons" -> HasNull(v.car) \/ HasNull(v.cdr)
    [] OTHER -> FALSE

-----------------------------------------------------------------------------
(* Engine (Prolog) terms *)

TVariable == [tag |-> "PL_VARIABLE"]

TAtom(s) == [tag |-> "PL_ATOM", s |-> s]

TString(s) == [tag |-> "PL_STRING", s |-> s]

\* an integer term; fits64 is whether its value fits in a signed 64-bit integer
TInteger(n, fits64) == [tag |-> "PL_INTEGER", n |-> n, fits64 |-> fits64]

TFloat == [tag |-> "PL_FLOAT"]

TNil == [tag |-> "PL_NIL"]

TListPair(h, t) == [tag |-> "PL_LIST_PAIR", head |-> h, tail |-> t]

TCompound(name, args) == [tag |-> "PL_TERM", name |-> name, args |-> args]

TDict == [tag |-> "PL_DICT"]

TBlob == [tag |-> "PL_BLOB"]

\* a term of a type term_to_value has no case for
TOther == [tag |-> "PL_OTHER"]

\* A host character that UTF-8 encodes in two bytes, and its two bytes.  Every
\* other character of the model is ASCII and is its own single byte.
TwoByteChar == "E2"

LeadByte == "xC3"

TrailByte == "xA9"

RECURSIVE Utf8(_)
\* the UTF-8 bytes of a host string, as copy_string_contents writes them
Utf8(s) ==
  IF s = <<>> THEN <<>>
  ELSE (IF Head(s) = TwoByteChar THEN <<LeadByte, TrailByte>> ELSE <<Head(s)>>)
         \o Utf8(Tail(s))

RECURSIVE Utf8Decode(_)
\* the host string env->make_string builds from UTF-8 bytes
Utf8Decode(b) ==
  IF b = <<>> THEN <<>>
  ELSE IF Len(b) >= 2 /\ b[1] = LeadByte /\ b[2] = TrailByte
    THEN <<TwoByteChar>> \o Utf8Decode(Tail(Tail(b)))
  ELSE <<Head(b)>> \o Utf8Decode(Tail(b))

\* the type tag PL_term_type reports
PL_term_type(t) == t.tag

\* a character outside ISO Latin-1, which the engine stores as a wide character
WideChar == "W"

\* PL_get_int64: succeeds when the integer fits in 64 bits
PL_get_int64(t) == t.tag = "PL_INTEGER" /\ t.fits64

\* PL_get_string_chars: succeeds on a string that holds no wide character
PL_get_string_chars(t) ==
  t.tag = "PL_STRING" /\ \A i \in 1..Len(t.s) : t.s[i] # WideChar

\* PL_get_nchars(t, .., CVT_ATOM|REP_UTF8): succeeds on every atom
PL_get_nchars(t) == t.tag = "PL_ATOM"

\* PL_get_list: succeeds on a list pair
PL_get_list(t) == t.tag = "PL_LIST_PAIR"

-----------------------------------------------------------------------------
(* Term -> value conversion *)

term_to_value_integer(t) ==
  IF PL_get_int64(t) THEN EInteger(t.n) ELSE NULLV

term_to_value_string(t) ==
  IF PL_get_string_chars(t) THEN EString(Utf8Decode(t.s)) ELSE NULLV

term_to_value_atom(t) ==
  IF PL_get_nchars(t) THEN econs(Sym("atom"), EString(t.s)) ELSE NULLV

term_to_value_variable(t) == Sym("variable")

term_to_value_dict(t) == Sym("dict")

term_to_value_blob(t) == Sym("blob")

term_to_value_float(t) == Sym("float")

\* the size of one emacs_value slot, in bytes
SizeofValue == 8

\* bytes term_to_value_compound allocates for vals
CompoundAllocBytes(arity) == SizeofValue * arity + 1

\* bytes of vals that term_to_value_compound writes and hands to `list`
CompoundUsedBytes(arity) == SizeofValue * (arity + 1)

RECURSIVE term_to_value(_)
term_to_value_list(t) ==
  IF PL_get_list(t)
    THEN econs(term_to_value(t.head), term_to_value(t.tail))
    ELSE NULLV

term_to_value_compound(t) ==
  LET vals == <<EString(t.name)>> \o
              [n \in 1..Len(t.args) |-> term_to_value(t.args[n])]
  IN econs(Sym("compound"), elist(vals))

\* the default case of term_to_value's switch
term_to_value_default(t) == Sym("unconvertable")

term_to_value(t) ==
  CASE PL_term_type(t) = "PL_VARIABLE"  -> term_to_value_variable(t)
    [] PL_term_type(t) = "PL_ATOM"      -> term_to_value_atom(t)
    [] PL_term_type(t) = "PL_STRING"    -> term_to_value_string(t)
    [] PL_term_type(t) = "PL_NIL"       -> enil
    [] PL_term_type(t) = "PL_LIST_PAIR" -> term_to_value_list(t)
    [] PL_term_type(t) = "PL_INTEGER"   -> term_to_value_integer(t)
    [] PL_term_type(t) = "PL_TERM"      -> term_to_value_compound(t)
    [] PL_term_type(t) = "PL_DICT"      -> term_to_value_dict(t)
    [] PL_term_type(t) = "PL_BLOB"      -> term_to_value_blob(t)
    [] PL_term_type(t) = "PL_FLOAT"     -> term_to_value_blob(t)
    [] OTHER                            -> term_to_value_default(t)

RECURSIVE term_to_value_ub(_)
\* converting t executes undefined behaviour: a write past the end of the
\* compound buffer, or a null emacs_value handed to the host's cons or list
term_to_value_ub(t) ==
  CASE PL_term_type(t) = "PL_LIST_PAIR" ->
         \/ term_to_value_ub(t.head) \/ term_to_value_ub(t.tail)
         \/ term_to_value(t.head) = NULLV \/ term_to_value(t.tail) = NULLV
    [] PL_term_type(t) = "PL_TERM" ->
         \/ CompoundUsedBytes(Len(t.args)) > CompoundAllocBytes(Len(t.args))
         \/ \E n \in 1..Len(t.args) :
              term_to_value_ub(t.args[n]) \/ term_to_value(t.args[n]) = NULLV
    [] OTHER -> FALSE

\* what the host can see of term_to_value(t): its result, or a crash where
\* the conversion ran into undefined behaviour
term_to_value_outcomes(t) ==
  {term_to_value(t)} \cup (IF term_to_value_ub(t) THEN {Crash} ELSE {})

\* econs(tag, v) as the host can see it: a null v is undefined behaviour
econs_outcomes(tag, vs) ==
  {econs(tag, v) : v \in vs \ {Crash}}
    \cup (IF Crash \in vs \/ NULLV \in vs THEN {Crash} ELSE {})

-----------------------------------------------------------------------------
(* String transfer and value -> term conversion *)

\* No pending signal
NoSignal == "none"

\* the terminator slot the host's length probe counts
NUL == "NUL"

\* A resource fault injected into one entry-point call: the at-th malloc of
\* a string buffer fails ("malloc"), the at-th filling copy fails ("copy"),
\* or the at-th term-construction call of the engine reports failure ("put")
NoFault == [kind |-> "none", at |-> 0]

\* A conversion threads its counters through its calls: nd and np, the string
\* decodes and the engine term-construction calls made so far; live, the
\* string buffers allocated and not yet freed; dfree, whether a buffer was
\* freed twice or a pointer that is no live buffer was freed.
St0 == [nd |-> 0, np |-> 0, live |-> 0, dfree |-> FALSE]

\* env->copy_string_contents(env, estring, NULL, len_p): the length probe
copy_string_probe(v) ==
  IF v.tag = "string"
    THEN [ok |-> TRUE, len |-> Len(Utf8(v.s)) + 1]
    ELSE [ok |-> FALSE, len |-> 0]

\* a variant of estring_to_cstring that keeps the buffer when the copy fails
estring_to_cstring_leak(v, k, fault) ==
  LET probe == copy_string_probe(v) IN
  IF ~probe.ok
    THEN [ok |-> FALSE, buf |-> <<>>, len |-> 0, signal |-> "wrong-type-argument",
          allocated |-> FALSE, freed |-> FALSE]
  ELSE IF fault = [kind |-> "malloc", at |-> k]
    THEN [ok |-> FALSE, buf |-> <<>>, len |-> probe.len, signal |-> "malloc failed",
          allocated |-> FALSE, freed |-> FALSE]
  ELSE IF fault = [kind |-> "copy", at |-> k]
    THEN [ok |-> FALSE, buf |-> <<>>, len |-> probe.len,
          signal |-> "Failed to copy string contents",
          allocated |-> TRUE, freed |-> FALSE]
  ELSE [ok |-> TRUE, buf |-> Utf8(v.s) \o <<NUL>>, len |-> probe.len, signal |-> NoSignal,
        allocated |-> TRUE, freed |-> FALSE]

\* estring_to_cstring as the k-th string decode of the call.  The host's
\* own wrong-type-argument signal is pending before ethrow runs, and the
\* first pending signal is the one the caller sees.
estring_to_cstring(v, k, fault) ==
  LET probe == copy_string_probe(v) IN
  IF ~probe.ok
    THEN [ok |-> FALSE, buf |-> <<>>, len |-> 0, signal |-> "wrong-type-argument",
          allocated |-> FALSE, freed |-> FALSE]
  ELSE IF fault = [kind |-> "malloc", at |-> k]
    THEN [ok |-> FALSE, buf |-> <<>>, len |-> probe.len, signal |-> "malloc failed",
          allocated |-> FALSE, freed |-> FALSE]
  ELSE IF fault = [kind |-> "copy", at |-> k]
    THEN [ok |-> FALSE, buf |-> <<>>, len |-> probe.len,
          signal |-> "Failed to copy string contents",
          allocated |-> TRUE, freed |-> TRUE]
  ELSE [ok |-> TRUE, buf |-> Utf8(v.s) \o <<NUL>>, len |-> probe.len, signal |-> NoSignal,
        allocated |-> TRUE, freed |-> FALSE]

\* The counters after a string decode with result c whose caller then frees
\* the returned pointer callerFrees times.
Account(st, c, callerFrees) ==
  LET frees == (IF c.freed THEN 1 ELSE 0) + callerFrees
      allocs == IF c.allocated THEN 1 ELSE 0
  IN [st EXCEPT !.nd = @ + 1,
                !.live = @ + (IF frees >= allocs THEN 0 ELSE allocs - frees),
                !.dfree = @ \/ frees > allocs]

\* a variant of PstringNchars that passes the whole probed length
PstringNchars_full(len) == len

\* the character count estring_to_pstring passes to PL_put_string_nchars
PstringNchars(len) == len - 1

\* the frees of a name buffer at the cleanup label of sweep_open_query:
\* one when the pointer is not NULL
CleanupFrees(c) == IF c.ok THEN 1 ELSE 0

\* the engine's term-construction call number k reports failure
PutFails(k, fault) == fault = [kind |-> "put", at |-> k]

\* estring_to_pstring: decode the string, write len - 1 characters to the slot
estring_to_pstring(v, slot, st, fault) ==
  LET c == estring_to_cstring(v, st.nd + 1, fault)
      st1 == Account(st, c, IF c.ok THEN 1 ELSE 0)
  IN IF ~c.ok
       THEN [r |-> -1, t |-> slot, st |-> st1, signal |-> c.signal]
     ELSE IF PutFails(st.np + 1, fault)
       THEN [r |-> 0, t |-> slot, st |-> [st1 EXCEPT !.np = @ + 1], signal |-> NoSignal]
     ELSE [r |-> 1, t |-> TString(SubSeq(c.buf, 1, PstringNchars(c.len))),
           st |-> [st1 EXCEPT !.np = @ + 1], signal |-> NoSignal]

value_to_term_string(v, slot, st, fault) == estring_to_pstring(v, slot, st, fault)

value_to_term_integer(v, slot, st, fault) ==
  IF PutFails(st.np + 1, fault)
    THEN [r |-> 0, t |-> slot, st |-> [st EXCEPT !.np = @ + 1], signal |-> NoSignal]
    ELSE [r |-> 1, t |-> TInteger(v.n, TRUE), st |-> [st EXCEPT !.np = @ + 1],
          signal |-> NoSignal]

\* a variant of ConversionFailed: the result of the conversion is not tested
ConversionFailed_never(r) == FALSE

\* the result the callers of value_to_term take for a failure
ConversionFailed(r) == r < 0

RECURSIVE value_to_term(_, _, _, _)
value_to_term_list(v, slot, st, fault) ==
  LET h == value_to_term(v.car, TVariable, st, fault) IN
  IF ConversionFailed(h.r)
    THEN [r |-> h.r, t |-> slot, st |-> h.st, signal |-> h.signal]
  ELSE
    LET tl == value_to_term(v.cdr, TVariable, h.st, fault)
        sig == IF h.signal # NoSignal THEN h.signal ELSE tl.signal
    IN IF ConversionFailed(tl.r)
         THEN [r |-> tl.r, t |-> slot, st |-> tl.st, signal |-> sig]
       ELSE IF PutFails(tl.st.np + 1, fault)
         THEN [r |-> 0, t |-> slot, st |-> [tl.st EXCEPT !.np = @ + 1], signal |-> sig]
       ELSE [r |-> 1, t |-> TListPair(h.t, tl.t),
             st |-> [tl.st EXCEPT !.np = @ + 1], signal |-> sig]

value_to_term(v, slot, st, fault) ==
  IF v # enil
    THEN CASE v.tag = "string"  -> value_to_term_string(v, slot, st, fault)
           [] v.tag = "integer" -> value_to_term_integer(v, slot, st, fault)
           [] v.tag = "cons"    -> value_to_term_list(v, slot, st, fault)
           [] OTHER             -> [r |-> -1, t |-> slot, st |-> st, signal |-> NoSignal]
    ELSE [r |-> 1, t |-> TNil, st |-> st, signal |-> NoSignal]

-----------------------------------------------------------------------------
(* Inputs the entry points are called with, and what the engine may answer *)

\* a name argument that is a string, and one that is not
NameOk == EString(<<"m">>)

NameBad == EInteger(7)

\* args[0..2] of sweep-open-query
NameArgs ==
  {<<NameOk, NameOk, NameOk>>, <<NameBad, NameOk, NameOk>>,
   <<NameOk, NameBad, NameOk>>, <<NameOk, NameOk, NameBad>>}

\* args[3] of sweep-open-query
InputValues ==
  {enil, EInteger(1), EFloat, ECons(EString(<<"a">>), enil),
   ECons(EInteger(1), EFloat)}

\* the resource faults a call may meet: the string decodes of an Open are
\* numbered 1 to 3 for the names and from 4 for the strings of the value
Faults ==
  {NoFault} \cup
  {[kind |-> "malloc", at |-> i] : i \in {1, 2, 3, 4}} \cup
  {[kind |-> "copy", at |-> i] : i \in {1, 4}} \cup
  {[kind |-> "put", at |-> i] : i \in {1, 2}}

\* the argument lists of sweep-open-query: a name that is no string, or
\* three names that are strings and possibly a resource fault
OpenInputs ==
  {[names |-> n, v |-> v, fault |-> NoFault] :
     n \in NameArgs \ {<<NameOk, NameOk, NameOk>>}, v \in InputValues}
  \cup
  {[names |-> <<NameOk, NameOk, NameOk>>, v |-> v, fault |-> f] :
     v \in InputValues, f \in Faults}

\* an integer term too large for 64 bits (n holds its low digits)
BigInteger == TInteger(0, FALSE)

\* bindings of the output argument the engine may produce as solutions
SolTerms ==
  {TInteger(1, TRUE), BigInteger, TString(<<"a">>),
   TCompound(<<"f">>, <<TInteger(1, TRUE)>>)}

\* exception terms the engine may raise
ExcTerms == {TAtom(<<"e">>), TCompound(<<"error">>, <<TAtom(<<"e">>)>>)}

\* no exception: PL_exception returns 0
NoTerm == [tag |-> "none"]

-----------------------------------------------------------------------------
(* The engine's query stack *)

\* PL_current_query(): the handle of the innermost open query, 0 when none
PL_current_query == IF queries = <<>> THEN 0 ELSE Head(queries).qid

\* two fresh term references, both unbound (PL_new_term_refs(2))
PL_new_term_refs == refs \o <<[term |-> TVariable, q |-> 0], [term |-> TVariable, q |-> 0]>>

\* the term a reference holds; reference 0 and references never handed out
\* hold nothing
TermAt(rs, r) == IF r \in 1..Len(rs) THEN rs[r].term ELSE NoTerm

\* The references something still holds: sweep.c holds `o` and the engine
\* holds the two arguments of each open query.  Nothing can name any other
\* reference again, so the term of such a reference is not kept.
Held(qs, out) == {out} \cup {qs[i].a : i \in 1..Len(qs)} \cup {qs[i].a + 1 : i \in 1..Len(qs)}

Forget(rs, qs, out) ==
  [r \in 1..Len(rs) |->
     IF r \in Held(qs, out) THEN rs[r] ELSE [rs[r] EXCEPT !.term = NoTerm]]

\* the extended status codes of PL_next_solution under PL_Q_EXT_STATUS
Statuses == {"PL_S_EXCEPTION", "PL_S_FALSE", "PL_S_TRUE", "PL_S_LAST"}

\* the statuses the engine can answer for a query: once it has answered
\* anything but PL_S_TRUE there are no further solutions
EngineStatuses(q) == IF q.more THEN Statuses ELSE {"PL_S_FALSE"}

NoIn == [names |-> <<>>, v |-> enil, fault |-> NoFault]

\* the string buffers a call leaves behind: how many are still allocated,
\* and whether one was freed twice
Buffers(st) == [live |-> st.live, dfree |-> st.dfree]

NoCall ==
  [op |-> "none", signal |-> NoSignal, ret |-> NULLV, status |-> "none",
   in |-> NoIn, readEnded |-> FALSE, bufs |-> Buffers(St0), exc |-> NoTerm]

Init ==
  /\ refs = <<>>
  /\ queries = <<>>
  /\ nqid = 0
  /\ o = 0
  /\ last = NoCall
  /\ crashed = FALSE
  /\ cin = NoTerm
  /\ cout = NoTerm

-----------------------------------------------------------------------------
(* sweep_open_query *)

AlreadyExecuting == "Prolog is already executing a query"

NoCurrentQuery == "No current query"

\* a variant of OpenRejected that never rejects
OpenRejected_never(d) == FALSE

\* the test that rejects an Open while a query is open
OpenRejected(d) == d # 0

\* What sweep_open_query does with its arguments once it has found no query
\* open: decode the three names in turn, convert the value, and either open
\* the query or go to cleanup.
OpenPlan(names, v, fault) ==
  LET c == estring_to_cstring(names[1], 1, fault)
      stc == Account(St0, c, CleanupFrees(c))
      m == estring_to_cstring(names[2], 2, fault)
      stm == Account(stc, m, CleanupFrees(m))
      f == estring_to_cstring(names[3], 3, fault)
      stf == Account(stm, f, CleanupFrees(f))
      vt == value_to_term(v, TVariable, stf, fault)
  IN IF ~c.ok THEN [open |-> FALSE, signal |-> c.signal, t |-> TVariable, st |-> stc]
     ELSE IF ~m.ok
       THEN [open |-> FALSE, signal |-> m.signal, t |-> TVariable, st |-> stm]
     ELSE IF ~f.ok
       THEN [open |-> FALSE, signal |-> f.signal, t |-> TVariable, st |-> stf]
     ELSE IF ConversionFailed(vt.r)
       THEN [open |-> FALSE, signal |-> vt.signal, t |-> vt.t, st |-> vt.st]
     ELSE [open |-> TRUE, signal |-> vt.signal, t |-> vt.t, st |-> vt.st]

\* a variant of OutputRef that takes the first of the two references
OutputRef_input(a) == a

\* the reference Open stores in o: the second of the two it allocated at a
OutputRef(a) == a + 1

\* what the host sees returned: a pending signal replaces the return value
Returned(signal, v) == IF signal # NoSignal THEN NULLV ELSE v

sweep_open_query ==
  /\ ~crashed
  /\ Len(refs) < 2 * MaxOpenCalls
  /\ \E in \in OpenInputs :
       LET a == Len(refs) + 1
           rs == PL_new_term_refs
           plan == OpenPlan(in.names, in.v, in.fault)
       IN IF OpenRejected(PL_current_query)
            THEN /\ refs' = Forget(rs, queries, o)
                 /\ o' = o
                 /\ last' = [NoCall EXCEPT !.op = "open", !.in = in,
                               !.signal = AlreadyExecuting]
                 /\ UNCHANGED <<queries, nqid>>
          ELSE IF ~plan.open
            THEN /\ refs' = Forget([rs EXCEPT ![a].term = plan.t], queries, o)
                 /\ o' = o
                 /\ last' = [NoCall EXCEPT !.op = "open", !.in = in,
                               !.signal = plan.signal,
                               !.ret = Returned(plan.signal, et),
                               !.bufs = Buffers(plan.st)]
                 /\ UNCHANGED <<queries, nqid>>
          ELSE LET qs == <<[qid |-> nqid + 1, a |-> a, more |-> TRUE,
                            exc |-> NoTerm]>> \o queries
               IN /\ refs' = Forget([rs EXCEPT
                                        ![a] = [term |-> plan.t, q |-> nqid + 1],
                                        ![a + 1] = [term |-> TVariable, q |-> nqid + 1]],
                                     qs, a + 1)
                  /\ queries' = qs
                  /\ nqid' = nqid + 1
                  /\ o' = OutputRef(a)
                  /\ last' = [NoCall EXCEPT !.op = "open", !.in = in,
                                !.signal = plan.signal,
                                !.ret = Returned(plan.signal, et),
                                !.bufs = Buffers(plan.st)]
  /\ UNCHANGED <<crashed, cin, cout>>

-----------------------------------------------------------------------------
(* sweep_next_solution *)

\* the test that rejects Step, Cut and Close when no query is open
NoQuery(d) == d = 0

\* a variant of RejectNoQuery that returns NULL without signalling
RejectNoQuery_silent(op) == [NoCall EXCEPT !.op = op]

\* what the host sees of a Step, Cut or Close made with no query open:
\* ethrow(env, "No current query"); return NULL
RejectNoQuery(op) == [NoCall EXCEPT !.op = op, !.signal = NoCurrentQuery]

\* PL_next_solution(d) answering `status` with term `t` (the solution's
\* binding of the output argument, or the exception raised): the engine
\* binds the output argument of the query on a solution and leaves it
\* unbound otherwise; the query stays open.
PL_next_solution_refs(q, status, t) ==
  [refs EXCEPT ![q.a + 1].term =
     IF status \in {"PL_S_TRUE", "PL_S_LAST"} THEN t ELSE TVariable]

PL_next_solution_query(q, status, t) ==
  [q EXCEPT !.more = (status = "PL_S_TRUE"),
            !.exc = IF status = "PL_S_EXCEPTION" THEN t ELSE NoTerm]

\* a variant of NextSolutionQueries that ends the query on an exception
NextSolutionQueries_autoclose(q1) ==
  IF q1.exc # NoTerm THEN Tail(queries) ELSE <<q1>> \o Tail(queries)

\* the query stack after sweep_next_solution: the handler advances the
\* innermost query and ends none
NextSolutionQueries(q1) == <<q1>> \o Tail(queries)

\* the outcomes of converting the term of reference r; reference 0 and
\* stale references are not terms the engine can be asked about
ConvertRef(rs, r) ==
  IF TermAt(rs, r) = NoTerm THEN {Crash} ELSE term_to_value_outcomes(TermAt(rs, r))

\* a variant of NextSolutionResult that converts the output term as it was
\* bound before the advance
NextSolutionResult_stale(status, exc, rs) ==
  CASE status = "PL_S_EXCEPTION" ->
         econs_outcomes(Sym("exception"), term_to_value_outcomes(exc))
    [] status = "PL_S_FALSE" -> {enil}
    [] status = "PL_S_TRUE" -> econs_outcomes(et, ConvertRef(refs, o))
    [] status = "PL_S_LAST" -> econs_outcomes(Sym("!"), ConvertRef(refs, o))
    [] OTHER -> {NULLV}

\* the switch of sweep_next_solution on the status of the advance
NextSolutionResult(status, exc, rs) ==
  CASE status = "PL_S_EXCEPTION" ->
         econs_outcomes(Sym("exception"), term_to_value_outcomes(exc))
    [] status = "PL_S_FALSE" -> {enil}
    [] status = "PL_S_TRUE" -> econs_outcomes(et, ConvertRef(rs, o))
    [] status = "PL_S_LAST" -> econs_outcomes(Sym("!"), ConvertRef(rs, o))
    [] OTHER -> {NULLV}

\* sweep_next_solution past its check for an open query, the engine
\* answering the advance with `status` and term `t`
NextSolution(status, t) ==
  LET q == Head(queries)
      rs == PL_next_solution_refs(q, status, t)
      q1 == PL_next_solution_query(q, status, t)
  IN /\ refs' = rs
     /\ queries' = NextSolutionQueries(q1)
     /\ \E ret \in NextSolutionResult(status, q1.exc, rs) :
          /\ last' = [NoCall EXCEPT !.op = "next", !.status = status,
                                     !.ret = ret]
          /\ crashed' = (ret = Crash)

sweep_next_solution ==
  /\ ~crashed
  /\ IF NoQuery(PL_current_query)
       THEN /\ last' = RejectNoQuery("next")
            /\ UNCHANGED <<refs, queries, crashed>>
       ELSE \E status \in EngineStatuses(Head(queries)) :
            \E t \in IF status = "PL_S_EXCEPTION" THEN ExcTerms
                      ELSE IF status = "PL_S_FALSE" THEN {NoTerm} ELSE SolTerms :
              NextSolution(status, t)
  /\ UNCHANGED <<nqid, o, cin, cout>>

-----------------------------------------------------------------------------
(* sweep_close_query and sweep_cut_query *)

\* PL_close_query(d): the query ends and the bindings it made are undone
PL_close_query_refs(q) == [refs EXCEPT ![q.a + 1].term = TVariable]

\* PL_cut_query(d): the query ends and the bindings it made are kept
PL_cut_query_refs(q) == refs

\* a variant of FinalizedQueries in which the query is never finalized
FinalizedQueries_kept == queries

\* the query stack once sweep_close_query or sweep_cut_query has had the
\* engine finalize the innermost query, whatever the call reports
FinalizedQueries == Tail(queries)

\* the switch of sweep_close_query and sweep_cut_query on what the engine
\* reports: FALSE gives the conversion of PL_exception(d), read once the
\* query d has ended
FinalizeResult(ok, exc) ==
  IF ok THEN {et} ELSE term_to_value_outcomes(exc) \cup {Crash}

sweep_close_query ==
  /\ ~crashed
  /\ IF NoQuery(PL_current_query)
       THEN /\ last' = RejectNoQuery("close")
            /\ UNCHANGED <<refs, queries, crashed>>
       ELSE \E ok \in BOOLEAN : \E exc \in IF ok THEN {NoTerm} ELSE ExcTerms :
              /\ refs' = Forget(PL_close_query_refs(Head(queries)), FinalizedQueries, o)
              /\ queries' = FinalizedQueries
              /\ \E ret \in FinalizeResult(ok, exc) :
                   /\ last' = [NoCall EXCEPT !.op = "close", !.ret = ret,
                                 !.status = IF ok THEN "TRUE" ELSE "FALSE",
                                 !.readEnded = ~ok, !.exc = exc]
                   /\ crashed' = (ret = Crash)
  /\ UNCHANGED <<nqid, o, cin, cout>>

sweep_cut_query ==
  /\ ~crashed
  /\ IF NoQuery(PL_current_query)
       THEN /\ last' = RejectNoQuery("cut")
            /\ UNCHANGED <<refs, queries, crashed>>
       ELSE \E ok \in BOOLEAN : \E exc \in IF ok THEN {NoTerm} ELSE ExcTerms :
              /\ refs' = Forget(PL_cut_query_refs(Head(queries)), FinalizedQueries, o)
              /\ queries' = FinalizedQueries
              /\ \E ret \in FinalizeResult(ok, exc) :
                   /\ last' = [NoCall EXCEPT !.op = "cut", !.ret = ret,
                                 !.status = IF ok THEN "TRUE" ELSE "FALSE",
                                 !.readEnded = ~ok, !.exc = exc]
                   /\ crashed' = (ret = Crash)
  /\ UNCHANGED <<nqid, o, cin, cout>>

-----------------------------------------------------------------------------
(* The entry points, called in any order *)

Next ==
  \/ sweep_open_query
  \/ sweep_next_solution
  \/ sweep_cut_query
  \/ sweep_close_query

Spec == Init /\ [][Next]_vars

-----------------------------------------------------------------------------
(* The Steps of one query against the solutions its goal has.  cin is the
   sequence of solutions the engine finds for the output argument, in
   backtracking order; cout records the advances of the engine and what
   each Step returned. *)

\* number of solutions of the goal
MaxSolutions == 2

\* number of Steps made on the query
MaxSteps == 3

RECURSIVE SolutionSeqs(_)
SolutionSeqs(n) ==
  IF n = 0 THEN {<<>>}
  ELSE LET shorter == SolutionSeqs(n - 1)
       IN shorter \cup {Append(ss, t) : ss \in {x \in shorter : Len(x) = n - 1},
                                       t \in SolTerms}

NoSteps == [tag |-> "steps", adv |-> 0, pos |-> 0, log |-> <<>>]

\* the state Open leaves when it has opened the first query of the process,
\* on the goal argument nil
InitSteps ==
  /\ refs = <<[term |-> TNil, q |-> 1], [term |-> TVariable, q |-> 1]>>
  /\ queries = <<[qid |-> 1, a |-> 1, more |-> TRUE, exc |-> NoTerm]>>
  /\ nqid = 1
  /\ o = 2
  /\ last = [NoCall EXCEPT !.op = "open", !.ret = et,
                !.in = [names |-> <<NameOk, NameOk, NameOk>>, v |-> enil,
                        fault |-> NoFault]]
  /\ crashed = FALSE
  /\ cin \in SolutionSeqs(MaxSolutions)
  /\ cout = NoSteps

\* what PL_next_solution answers when the goal has the solutions sols and
\* pos of them have been delivered: the next solution, with PL_S_LAST if
\* the engine sees that it is the last one, or failure when there is none
\* left; or an exception the goal raises instead
EngineAnswers(q, sols, pos) ==
  IF ~q.more THEN {<<"PL_S_FALSE", NoTerm>>}
  ELSE {<<"PL_S_EXCEPTION", e>> : e \in ExcTerms} \cup
       (IF pos < Len(sols)
          THEN {<<"PL_S_TRUE", sols[pos + 1]>>} \cup
               (IF pos + 1 = Len(sols) THEN {<<"PL_S_LAST", sols[pos + 1]>>} ELSE {})
          ELSE {<<"PL_S_FALSE", NoTerm>>})

\* sweep_next_solution on the query whose goal has the solutions cin
StepOnSolutions ==
  /\ ~crashed
  /\ Len(cout.log) < MaxSteps
  /\ IF NoQuery(PL_current_query)
       THEN /\ last' = RejectNoQuery("next")
            /\ UNCHANGED <<refs, queries, crashed, cout>>
       ELSE \E ans \in EngineAnswers(Head(queries), cin, cout.pos) :
              /\ NextSolution(ans[1], ans[2])
              /\ cout' = [cout EXCEPT
                            !.adv = @ + 1,
                            !.pos = IF ans[1] \in {"PL_S_TRUE", "PL_S_LAST"}
                                      THEN @ + 1 ELSE @,
                            !.log = Append(@, [status |-> ans[1], ret |-> last'.ret])]
  /\ UNCHANGED <<nqid, o, cin>>

NextSteps == StepOnSolutions \/ sweep_cut_query \/ sweep_close_query

SpecSteps == InitSteps /\ [][NextSteps]_vars

-----------------------------------------------------------------------------
(* Term -> value conversion on its own *)

\* nesting depth of the terms converted
MaxTermDepth == 1

LeafTerms ==
  {TVariable, TAtom(<<"e">>), TString(<<>>), TString(<<"a">>),
   TString(<<WideChar>>), TInteger(1, TRUE), BigInteger, TFloat, TNil, TDict,
   TBlob, TOther}

RECURSIVE TermsOfDepth(_)
TermsOfDepth(d) ==
  IF d = 0 THEN LeafTerms
  ELSE LET sub == TermsOfDepth(d - 1)
       IN sub \cup {TListPair(h, t) : h \in sub, t \in sub}
              \cup {TCompound(<<"f">>, <<x>>) : x \in sub}
              \cup {TCompound(<<"f">>, <<x, y>>) : x \in sub, y \in sub}

InitTermToValue ==
  /\ refs = <<>>
  /\ queries = <<>>
  /\ nqid = 0
  /\ o = 0
  /\ last = NoCall
  /\ crashed = FALSE
  /\ cin \in TermsOfDepth(MaxTermDepth)
  /\ cout = NoTerm

\* the indexes of vals that term_to_value_compound writes and funcall reads
CompoundSlots(arity) == 0..arity

\* the vals buffer of a conversion of t: the bytes malloc was asked for and
\* the slots used; none when t is no compound
CompoundBuffer(t) ==
  IF t.tag = "PL_TERM"
    THEN [alloc |-> CompoundAllocBytes(Len(t.args)), slots |-> CompoundSlots(Len(t.args))]
    ELSE [alloc |-> 0, slots |-> {}]

\* the calls of free(vals) in term_to_value_compound: there is none
CompoundFrees == 0

RECURSIVE term_to_value_unfreed(_)
RECURSIVE UnfreedIn(_)
\* the vals buffers that the conversions of the terms of a sequence leave
\* allocated
UnfreedIn(ts) ==
  IF ts = <<>> THEN 0 ELSE term_to_value_unfreed(Head(ts)) + UnfreedIn(Tail(ts))

\* the vals buffers that term_to_value(t) has allocated and not freed when
\* it returns
term_to_value_unfreed(t) ==
  CASE t.tag = "PL_TERM" -> (1 - CompoundFrees) + UnfreedIn(t.args)
    [] t.tag = "PL_LIST_PAIR" -> UnfreedIn(<<t.head, t.tail>>)
    [] OTHER -> 0

\* one call of term_to_value on cin
ConvertTerm ==
  /\ cout = NoTerm
  /\ cout' = [tag |-> "converted", v |-> term_to_value(cin),
               ub |-> term_to_value_ub(cin), buf |-> CompoundBuffer(cin),
               unfreed |-> term_to_value_unfreed(cin)]
  /\ UNCHANGED <<refs, queries, nqid, o, last, crashed, cin>>

NextTermToValue == ConvertTerm

SpecTermToValue == InitTermToValue /\ [][NextTermToValue]_vars

-----------------------------------------------------------------------------
(* Value -> term conversion on its own *)

\* nesting depth of the host values converted
MaxValueDepth == 1

LeafValues ==
  {enil, et, Sym("foo"), EFloat, EInteger(0), EString(<<>>), EString(<<"a">>),
   EString(<<"a", TwoByteChar>>)}

RECURSIVE ValuesOfDepth(_)
ValuesOfDepth(d) ==
  IF d = 0 THEN LeafValues
  ELSE LET sub == ValuesOfDepth(d - 1)
       IN sub \cup {ECons(x, y) : x \in sub, y \in sub}

\* the resource faults one conversion call may meet
ConversionFaults ==
  {NoFault} \cup {[kind |-> "malloc", at |-> k] : k \in 1..2}
            \cup {[kind |-> "copy", at |-> k] : k \in 1..2}
            \cup {[kind |-> "put", at |-> k] : k \in 1..3}

InitValueToTerm ==
  /\ refs = <<>>
  /\ queries = <<>>
  /\ nqid = 0
  /\ o = 0
  /\ last = NoCall
  /\ crashed = FALSE
  /\ cin \in [v : ValuesOfDepth(MaxValueDepth), fault : ConversionFaults]
  /\ cout = NoTerm

\* one call of value_to_term on cin.v with a fresh term reference as the
\* target, and term_to_value of the target afterwards
ConvertValue ==
  /\ cout = NoTerm
  /\ LET vt == value_to_term(cin.v, TVariable, St0, cin.fault)
     IN cout' = [tag |-> "built", r |-> vt.r, t |-> vt.t, signal |-> vt.signal,
                 st |-> vt.st, back |-> term_to_value(vt.t)]
  /\ UNCHANGED <<refs, queries, nqid, o, last, crashed, cin>>

NextValueToTerm == ConvertValue

SpecValueToTerm == InitValueToTerm /\ [][NextValueToTerm]_vars

-----------------------------------------------------------------------------
(* Properties of the query entry points *)

RECURSIVE Supported(_)
\* the value is built only from strings, integers, conses and nil
Supported(v) ==
  \/ v = enil
  \/ v.tag \in {"string", "integer"}
  \/ v.tag = "cons" /\ Supported(v.car) /\ Supported(v.cdr)

RECURSIVE NStrings(_)
\* the number of strings in the value
NStrings(v) ==
  CASE v.tag = "string" -> 1
    [] v.tag = "cons" -> NStrings(v.car) + NStrings(v.cdr)
    [] OTHER -> 0

AllNamesStrings(in) == \A i \in 1..3 : in.names[i].tag = "string"

\* a name of the Open cannot be decoded: it is not a string, or the
\* allocation or the copy for it fails
NameDecodeFails(in) ==
  \/ ~AllNamesStrings(in)
  \/ in.fault.kind \in {"malloc", "copy"} /\ in.fault.at \in 1..3

\* the value of the Open cannot be converted: it holds a value of an
\* unsupported type, or the decode of one of its strings fails
ValueConversionFails(in) ==
  \/ ~Supported(in.v)
  \/ /\ in.fault.kind \in {"malloc", "copy"}
     /\ in.fault.at \in 4..(3 + NStrings(in.v))

\* valid arguments and no resource fault
ValidOpen(in) == AllNamesStrings(in) /\ Supported(in.v) /\ in.fault = NoFault

\* reference r is an argument of a query that has ended
RefersToEndedQuery(rs, qs, r) ==
  /\ r \in 1..Len(rs)
  /\ rs[r].q # 0
  /\ \A i \in 1..Len(qs) : qs[i].qid # rs[r].q

\* C1: an Open made while a query is open is rejected with "already
\* executing a query"; it opens, queues and displaces nothing, leaves the
\* open query and o as they were, and at most one query is ever open.
C1_OpenRejectedWhileOpen ==
  [][ /\ Len(queries') <= 1
      /\ (last'.op = "open" /\ PL_current_query # 0) =>
            /\ last'.signal = "Prolog is already executing a query"
            /\ queries' = queries
            /\ o' = o
            /\ TermAt(refs', o') = TermAt(refs, o) ]_vars

C1_Witness ==
  /\ last.op = "open"
  /\ last.signal = "Prolog is already executing a query"
  /\ Len(queries) = 1

\* C2: Step, Cut and Close made with no query open signal "No current
\* query", make no engine call, and leave the query state and o unchanged.
C2_RejectedWithoutQuery ==
  [][ (last'.op \in {"next", "cut", "close"} /\ PL_current_query = 0) =>
        /\ last'.signal = "No current query"
        /\ last'.status = "none"
        /\ queries' = queries
        /\ refs' = refs
        /\ nqid' = nqid
        /\ o' = o ]_vars

C2_Witness ==
  /\ last.op \in {"next", "cut", "close"}
  /\ last.signal = "No current query"
  /\ nqid >= 1
  /\ queries = <<>>

\* C3: a Cut or Close of an open query leaves no query open, whether the
\* engine reports success or failure, and an Open with valid arguments
\* that follows it opens a new query.
C3_FinalizeThenOpen ==
  [][ /\ (last'.op \in {"cut", "close"} /\ PL_current_query # 0) =>
            PL_current_query' = 0
      /\ (/\ last'.op = "open"
          /\ last.op \in {"cut", "close"}
          /\ last.signal = NoSignal
          /\ ValidOpen(last'.in)) =>
            /\ PL_current_query' # 0
            /\ PL_current_query' # nqid
            /\ last'.signal = NoSignal
            /\ last'.ret = et ]_vars

C3_Witness ==
  /\ last.op = "open"
  /\ ValidOpen(last.in)
  /\ nqid = 2
  /\ PL_current_query = 2

\* C4: a Step never ends the query, whatever the engine answers; a query
\* stops being open only in a Cut or a Close.
C4_StepKeepsQueryOpen ==
  [][ /\ (last'.op = "next" /\ PL_current_query # 0) =>
            PL_current_query' = PL_current_query
      /\ (PL_current_query # 0 /\ PL_current_query' # PL_current_query) =>
            last'.op \in {"cut", "close"} ]_vars

C4_Witness ==
  /\ last.op = "next"
  /\ last.status = "PL_S_EXCEPTION"
  /\ last.ret = econs(Sym("exception"), econs(Sym("atom"), EString(<<"e">>)))
  /\ PL_current_query # 0

\* C5: an Open made with no query open whose value holds a value of an
\* unsupported type, at the top or inside a cons, signals an error.
C5_UnsupportedValueSignals ==
  [][ (last'.op = "open" /\ PL_current_query = 0 /\ ~Supported(last'.in.v)) =>
        last'.signal # NoSignal ]_vars

\* C6: an Open that fails because a name cannot be decoded or the value
\* cannot be converted opens no query and leaves o as it was.
C6_FailedOpenChangesNothing ==
  [][ (/\ last'.op = "open"
       /\ PL_current_query = 0
       /\ NameDecodeFails(last'.in) \/ ValueConversionFails(last'.in)) =>
        /\ PL_current_query' = 0
        /\ queries' = queries
        /\ nqid' = nqid
        /\ o' = o
        /\ TermAt(refs', o') = TermAt(refs, o) ]_vars

C6_Witness ==
  /\ last.op = "open"
  /\ ValueConversionFails(last.in)
  /\ ~NameDecodeFails(last.in)
  /\ queries = <<>>
  /\ nqid = 1
  /\ o = 2

\* C7: a Step on an open query returns the pair or nil that the engine's
\* status selects: (exception . convert(exception term)), nil,
\* (t . convert(o)) or (! . convert(o)), o being the output term of the
\* open query with its current binding.
C7_StepResult ==
  (last.op = "next" /\ last.signal = NoSignal) =>
    last.ret =
      CASE last.status = "PL_S_EXCEPTION" ->
             econs(Sym("exception"), term_to_value(Head(queries).exc))
        [] last.status = "PL_S_FALSE" -> enil
        [] last.status = "PL_S_TRUE" ->
             econs(et, term_to_value(TermAt(refs, Head(queries).a + 1)))
        [] last.status = "PL_S_LAST" ->
             econs(Sym("!"), term_to_value(TermAt(refs, Head(queries).a + 1)))

\* C8: once a Cut or Close has returned, o does not refer to a term of the
\* ended query, and the bridge has read no term of that query after the
\* engine finalized it.
C8_NoReferenceAcrossEnd ==
  [][ (last'.op \in {"cut", "close"} /\ PL_current_query # 0) =>
        /\ ~RefersToEndedQuery(refs', queries', o')
        /\ ~last'.readEnded ]_vars

\* the log entry is of a Step that returned a solution
ReturnedSolution(e) == e.status \in {"PL_S_TRUE", "PL_S_LAST"} /\ e.ret # Crash

C18_CutRetainsCloseDiscards ==
  [][ (PL_current_query # 0 /\ last'.op \in {"cut", "close"}) =>
        /\ last'.op = "cut" => TermAt(refs', o) = TermAt(refs, o)
        /\ last'.op = "close" => TermAt(refs', o) = TVariable
        /\ last'.ret = IF last'.status = "TRUE" THEN et
                       ELSE term_to_value(last'.exc) ]_vars

\* C19: whenever a query opened by the bridge is open, o is the second
\* argument reference of that very query, the one whose binding a Step
\* converts.
C19_OutputBelongsToOpenQuery ==
  queries # <<>> =>
    /\ o = Head(queries).a + 1
    /\ refs[o].q = Head(queries).qid

C19_Witness ==
  /\ nqid = 2
  /\ PL_current_query = 2
  /\ last.op = "next"
  /\ last.status = "PL_S_TRUE"
  /\ o = Head(queries).a + 1
  /\ refs[o].term = TString(<<"a">>)

\* C15: when Open returns, with success or after a failure at the first,
\* second or third name decode or at the value conversion, no string buffer
\* of the call remains allocated and none was freed twice.
C15_StringBuffersReleased ==
  last.op = "open" =>
    /\ last.bufs.live = 0
    /\ ~last.bufs.dfree

C15_Witness ==
  /\ last.op = "open"
  /\ last.in.fault = [kind |-> "copy", at |-> 4]
  /\ last.signal = "Failed to copy string contents"
  /\ last.bufs = [live |-> 0, dfree |-> FALSE]

-----------------------------------------------------------------------------
(* Properties of the term -> value conversion *)

\* C9: a Float term converts to the symbol float, a Dict term to the
\* symbol dict and a Blob term to the symbol blob.
C9_DistinctSentinels ==
  cout # NoTerm =>
    /\ cin.tag = "PL_FLOAT" => cout.v = Sym("float")
    /\ cin.tag = "PL_DICT" => cout.v = Sym("dict")
    /\ cin.tag = "PL_BLOB" => cout.v = Sym("blob")

\* C10: term_to_value returns a host value for every term, never NULL, at
\* the top or for a term nested in a list or a compound.
C10_Total ==
  cout # NoTerm => ~HasNull(cout.v)

\* C13: the buffer of a compound conversion holds arity + 1 value slots, so
\* every slot written or read, index 0 and indexes 1..arity, lies inside
\* the allocation.
C13_SlotsInsideAllocation ==
  (cout # NoTerm /\ cin.tag = "PL_TERM") =>
    /\ cout.buf.slots = 0..Len(cin.args)
    /\ \A n \in cout.buf.slots : SizeofValue * (n + 1) <= cout.buf.alloc

\* C14: when a conversion returns, every marshaling buffer it allocated for
\* a compound has been released.
C14_CompoundBufferReleased ==
  cout # NoTerm => cout.unfreed = 0

-----------------------------------------------------------------------------
(* Properties of the value -> term conversion *)

RECURSIVE HasUnsupported(_)
\* the value is, or holds in a car or a cdr, a value of an unsupported type
HasUnsupported(v) ==
  IF v.tag = "cons" THEN HasUnsupported(v.car) \/ HasUnsupported(v.cdr)
  ELSE v # enil /\ v.tag \notin {"string", "integer"}

RECURSIVE TermOf(_)
\* the term that stands for a supported value
TermOf(v) ==
  CASE v = enil          -> TNil
    [] v.tag = "string"  -> TString(Utf8(v.s))
    [] v.tag = "integer" -> TInteger(v.n, TRUE)
    [] v.tag = "cons"    -> TListPair(TermOf(v.car), TermOf(v.cdr))
    [] OTHER             -> NoTerm

C12_UnsupportedLeavesTarget ==
  (cout # NoTerm /\ HasUnsupported(cin.v)) =>
    /\ cout.r < 0
    /\ cout.t = TVariable

C12_Witness ==
  /\ cout # NoTerm
  /\ cin.v = ECons(EInteger(0), EFloat)
  /\ cout.r = -1
  /\ cout.t = TVariable

\* C16: a conversion result that the callers take for success is produced
\* only when the whole term was built; a cons whose car or cdr failed to
\* convert, for whatever reason, reports failure.
C16_NoAmbiguousSuccess ==
  (cout # NoTerm /\ ~ConversionFailed(cout.r)) =>
    /\ Supported(cin.v)
    /\ cout.t = TermOf(cin.v)

====
